---- MODULE Spec2Model ----
(***************************************************************************)
(* Model of the book catalogue: the Book entity (models/book.py), the      *)
(* in-memory BookRepository (repositories/book_repository.py) and the      *)
(* BookService on top of it (services/book_service.py).                    *)
(*                                                                         *)
(* The store is the list `books` of Book records (Python object            *)
(* references held by BookRepository._books, in insertion order) and the   *)
(* counter `next_id` (BookRepository._next_id).  `now` is the clock behind  *)
(* datetime.now(), counted in readings: every reading returns `now` and    *)
(* moves it on by one.  `last`, `track` and `assigned` are history         *)
(* variables: they record what the last call was and returned, and what    *)
(* happened to each stored book since it was added.  They are never read   *)
(* by the modelled code.  `kwargs_used` counts the keyword arguments       *)
(* passed to update_book so far.  `all_books` is the list a caller holds    *)
(* from its last get_all_books call (None before the first).               *)
(***************************************************************************)
EXTENDS Integers, Sequences, FiniteSets, TLC

VARIABLES books, next_id, now, last, track, assigned, kwargs_used, all_books

vars == <<books, next_id, now, last, track, assigned, kwargs_used, all_books>>

(***************************************************************************)
(* Bounds of the model.                                                    *)
(***************************************************************************)
\* A caller appends to a list it holds while it is shorter than MaxListLen.
MaxListLen == 3
\* A run reads the clock at most MaxClock times (add_book reads it twice,
\* a successful update_quantity once).
MaxClock == 4
\* The update_book calls of a run are passed at most MaxKwargs keyword
\* arguments in total.
MaxKwargs == 1

(***************************************************************************)
(* Input domains.                                                          *)
(***************************************************************************)
Isbns == {"978-1", "978-2"}
Titles == {"Python Guide"}
Authors == {"Eric Matthes"}
Publishers == {"Post"}
PublishDates == {20200101}
CategoryIds == {1}
Prices == {89}
\* No validation at construction: a negative total_quantity is accepted.
Quantities == {-1, 0, 1, 2}
\* Values the available_quantity of a Book object is explored with.
AvailValues == {-2, -1, 0, 1, 2}
\* Readings of the clock.
Times == 0 .. MaxClock
\* The ids a run can assign (two clock readings per stored book), which
\* are also the ids the calls are explored with.
BookIds == 1 .. (MaxClock \div 2)

\* Python's None, as returned by the lookups.
None == [none |-> TRUE]
\* The ValueError raised by add_book.
ValueError == [raised |-> "ValueError"]
\* The TypeError Python raises when a call passes the keyword book_id to
\* update_book(self, book_id, **kwargs): "got multiple values for argument
\* 'book_id'".  It is raised while the arguments are bound, before the
\* body runs.
TypeError == [raised |-> "TypeError"]

(***************************************************************************)
(* models/book.py                                                          *)
(***************************************************************************)
\* Book.__init__ at clock t: available_quantity starts at total_quantity;
\* create_time and update_time are two successive readings of the clock.
Book(book_id, isbn, title, author, publisher, publish_date, category_id, price, total_quantity, t) ==
    [book_id |-> book_id, isbn |-> isbn, title |-> title, author |-> author,
     publisher |-> publisher, publish_date |-> publish_date,
     category_id |-> category_id, price |-> price,
     total_quantity |-> total_quantity,
     available_quantity |-> total_quantity,
     create_time |-> t, update_time |-> t + 1]

\* The data attributes of a Book instance.
BookAttrs == {"book_id", "isbn", "title", "author", "publisher",
              "publish_date", "category_id", "price", "total_quantity",
              "available_quantity", "create_time", "update_time"}

\* get_status with >= in place of >.
get_status_nonnegative(book) ==
    IF book.available_quantity >= 0 THEN "available" ELSE "on loan"

\* Book.get_status
get_status(book) ==
    IF book.available_quantity > 0 THEN "available" ELSE "on loan"

\* update_quantity without the upper bound check.
update_quantity_no_upper(book, change, t) ==
    LET new_quantity == book.available_quantity + change IN
    IF new_quantity >= 0
    THEN [ok |-> TRUE,
          book |-> [book EXCEPT !.available_quantity = new_quantity,
                                !.update_time = t]]
    ELSE [ok |-> FALSE, book |-> book]

\* update_quantity with < in place of <= in the upper bound check.
update_quantity_upper_strict(book, change, t) ==
    LET new_quantity == book.available_quantity + change IN
    IF new_quantity >= 0 /\ new_quantity < book.total_quantity
    THEN [ok |-> TRUE,
          book |-> [book EXCEPT !.available_quantity = new_quantity,
                                !.update_time = t]]
    ELSE [ok |-> FALSE, book |-> book]

\* update_quantity that also takes the copy off total_quantity.
update_quantity_moves_total(book, change, t) ==
    LET new_quantity == book.available_quantity + change IN
    IF new_quantity >= 0 /\ new_quantity <= book.total_quantity
    THEN [ok |-> TRUE,
          book |-> [book EXCEPT !.available_quantity = new_quantity,
                                !.total_quantity = @ + change,
                                !.update_time = t]]
    ELSE [ok |-> FALSE, book |-> book]

\* update_quantity that reports success without storing the new quantity.
update_quantity_not_stored(book, change, t) ==
    LET new_quantity == book.available_quantity + change IN
    IF new_quantity >= 0 /\ new_quantity <= book.total_quantity
    THEN [ok |-> TRUE, book |-> [book EXCEPT !.update_time = t]]
    ELSE [ok |-> FALSE, book |-> book]

\* update_quantity with > in place of >= in the lower bound check.
update_quantity_lower_strict(book, change, t) ==
    LET new_quantity == book.available_quantity + change IN
    IF new_quantity > 0 /\ new_quantity <= book.total_quantity
    THEN [ok |-> TRUE,
          book |-> [book EXCEPT !.available_quantity = new_quantity,
                                !.update_time = t]]
    ELSE [ok |-> FALSE, book |-> book]

\* Book.update_quantity(change) at clock reading t: the returned flag and
\* the book after the call.
update_quantity(book, change, t) ==
    LET new_quantity == book.available_quantity + change IN
    IF new_quantity >= 0 /\ new_quantity <= book.total_quantity
    THEN [ok |-> TRUE,
          book |-> [book EXCEPT !.available_quantity = new_quantity,
                                !.update_time = t]]
    ELSE [ok |-> FALSE, book |-> book]

(***************************************************************************)
(* repositories/book_repository.py                                         *)
(***************************************************************************)
\* Index of the first book of bs with the given book_id, 0 when none.
RECURSIVE IndexById(_, _, _)
IndexById(bs, book_id, i) ==
    IF i > Len(bs) THEN 0
    ELSE IF bs[i].book_id = book_id THEN i
    ELSE IndexById(bs, book_id, i + 1)

\* Index of the first book of bs with the given isbn, 0 when none.
RECURSIVE IndexByIsbn(_, _, _)
IndexByIsbn(bs, isbn, i) ==
    IF i > Len(bs) THEN 0
    ELSE IF bs[i].isbn = isbn THEN i
    ELSE IndexByIsbn(bs, isbn, i + 1)

\* find_by_id that takes the id for the position in the list.
find_by_id_by_position(bs, book_id) ==
    IF book_id \in 1 .. Len(bs) THEN bs[book_id] ELSE None

\* BookRepository.find_by_id
find_by_id(bs, book_id) ==
    LET i == IndexById(bs, book_id, 1) IN IF i = 0 THEN None ELSE bs[i]

\* find_by_isbn whose loop starts at the second book.
find_by_isbn_skip_first(bs, isbn) ==
    LET i == IndexByIsbn(bs, isbn, 2) IN IF i = 0 THEN None ELSE bs[i]

\* BookRepository.find_by_isbn
find_by_isbn(bs, isbn) ==
    LET i == IndexByIsbn(bs, isbn, 1) IN IF i = 0 THEN None ELSE bs[i]

\* Strings that are searched are sequences of one-character strings.
\* The letters that have two cases, upper case and lower case in step.
UpperLetters == <<"P", "Y", "G", "O", "A", "B">>
LowerLetters == <<"p", "y", "g", "o", "a", "b">>

\* str.lower() that leaves every character as it is.
lower_keeps_case(str) == str

\* str.lower()
lower(str) ==
    [n \in 1 .. Len(str) |->
        IF \E u \in 1 .. Len(UpperLetters) : UpperLetters[u] = str[n]
        THEN LowerLetters[CHOOSE u \in 1 .. Len(UpperLetters) :
                             UpperLetters[u] = str[n]]
        ELSE str[n]]

\* Python's `sub in str` on strings.
contains(sub, str) ==
    \E k \in 0 .. (Len(str) - Len(sub)) :
        \A n \in 1 .. Len(sub) : str[k + n] = sub[n]

\* An optional argument that is passed: None stands for one that is
\* omitted (or passed as None).
Given(value) == [value |-> value]

\* Python's truth value of an optional string / integer argument: None,
\* the empty string and 0 are false.
truthy_str(arg) == arg # None /\ arg.value # <<>>
truthy_int(arg) == arg # None /\ arg.value # 0

\* The loop body of find_by_params: whether book is kept.
match(book, title, author, category_id) ==
    /\ ~(truthy_str(title)
          /\ ~contains(lower(title.value), lower(book.title)))
    /\ ~(truthy_str(author)
          /\ ~contains(lower(author.value), lower(book.author)))
    /\ ~(truthy_int(category_id)
          /\ book.category_id # category_id.value)

\* BookRepository.find_by_params: the loop over _books from position i,
\* appending the books kept to result.
RECURSIVE find_by_params_from(_, _, _, _, _, _)
find_by_params_from(bs, title, author, category_id, i, result) ==
    IF i > Len(bs) THEN result
    ELSE find_by_params_from(bs, title, author, category_id, i + 1,
             IF match(bs[i], title, author, category_id)
             THEN Append(result, bs[i]) ELSE result)

\* BookRepository.find_by_params
find_by_params(bs, title, author, category_id) ==
    find_by_params_from(bs, title, author, category_id, 1, <<>>)

\* A Python list of Book objects: which list object it is ("_books", the
\* repository's own, or "copy") and the books it holds, each a reference
\* to a stored Book object, written as its position in _books.
\* find_all that returns _books itself.
find_all_same_list(bs) ==
    [list |-> "_books", refs |-> [n \in 1 .. Len(bs) |-> n]]

\* BookRepository.find_all: self._books.copy()
find_all(bs) == [list |-> "copy", refs |-> [n \in 1 .. Len(bs) |-> n]]

\* The sequence s without its i-th element.
RemoveAt(s, i) ==
    [j \in 1 .. (Len(s) - 1) |-> IF j < i THEN s[j] ELSE s[j + 1]]

\* save that does not move the counter on.
save_counter_not_advanced(bs, nid, book) ==
    IF book.book_id = 0
    THEN LET saved == [book EXCEPT !.book_id = nid] IN
         [books |-> Append(bs, saved), next_id |-> nid, book |-> saved]
    ELSE LET i == IndexById(bs, book.book_id, 1) IN
         [books |-> IF i = 0 THEN bs ELSE [bs EXCEPT ![i] = book],
          next_id |-> nid, book |-> book]

\* save that numbers a new book by the length of the list.
save_id_from_length(bs, nid, book) ==
    IF book.book_id = 0
    THEN LET saved == [book EXCEPT !.book_id = Len(bs) + 1] IN
         [books |-> Append(bs, saved), next_id |-> nid + 1, book |-> saved]
    ELSE LET i == IndexById(bs, book.book_id, 1) IN
         [books |-> IF i = 0 THEN bs ELSE [bs EXCEPT ![i] = book],
          next_id |-> nid, book |-> book]

\* BookRepository.save: the list, the counter and the returned book.
save(bs, nid, book) ==
    IF book.book_id = 0
    THEN LET saved == [book EXCEPT !.book_id = nid] IN
         [books |-> Append(bs, saved), next_id |-> nid + 1, book |-> saved]
    ELSE LET i == IndexById(bs, book.book_id, 1) IN
         [books |-> IF i = 0 THEN bs ELSE [bs EXCEPT ![i] = book],
          next_id |-> nid, book |-> book]

\* delete that drops the last book when no book has the id.
delete_drops_last_when_missing(bs, book_id) ==
    LET i == IndexById(bs, book_id, 1) IN
    IF i = 0
    THEN [ok |-> FALSE,
          books |-> IF Len(bs) = 0 THEN bs ELSE RemoveAt(bs, Len(bs))]
    ELSE [ok |-> TRUE, books |-> RemoveAt(bs, i)]

\* BookRepository.delete: the returned flag and the list after the call.
delete(bs, book_id) ==
    LET i == IndexById(bs, book_id, 1) IN
    IF i = 0 THEN [ok |-> FALSE, books |-> bs]
    ELSE [ok |-> TRUE, books |-> RemoveAt(bs, i)]

(***************************************************************************)
(* History bookkeeping.                                                    *)
(***************************************************************************)
\* What is remembered of a book from the moment add_book stored it: the
\* total_quantity it was added with, whether only borrow_book calls have
\* reached it since, and how many of those returned True; whether
\* update_book has found it, and, as long as it has not, how many
\* borrow_book and return_book calls on the book have returned True.
NewTrack(total_quantity) ==
    [added_total |-> total_quantity, only_borrowed |-> TRUE, borrowed_ok |-> 0,
     updated |-> FALSE, borrows |-> 0, returns |-> 0]

Touched(tr) == [tr EXCEPT !.only_borrowed = FALSE, !.borrowed_ok = 0]

\* The track of a book after update_book found it.
Updated(tr) ==
    [Touched(tr) EXCEPT !.updated = TRUE, !.borrows = 0, !.returns = 0]

\* The track of a book after a borrow_book on it returned ok.
Borrowed(tr, ok) ==
    IF ok
    THEN [tr EXCEPT !.borrows = IF tr.updated THEN @ ELSE @ + 1,
                    !.borrowed_ok = IF tr.only_borrowed THEN @ + 1 ELSE @]
    ELSE tr

\* The track of a book after a return_book on it returned ok.
Returned(tr, ok) ==
    IF ok /\ ~tr.updated
    THEN [Touched(tr) EXCEPT !.returns = @ + 1]
    ELSE Touched(tr)

\* The record of a call: its name, arguments, result, the index in the
\* list (before the call) of the book it found (0: none) and that book as
\* it was before the call.  `prior` is filled by return_book only.
Call(op, args, ret, idx, before) ==
    [op |-> op, args |-> args, ret |-> ret, idx |-> idx, before |-> before,
     prior |-> <<>>]

\* For a return_book(book_id) call: when the call before it was a
\* borrow_book of the same id that found a book, what that call returned
\* and the available_quantity it found; <<>> otherwise.
PriorBorrow(book_id) ==
    IF last.op = "borrow_book" /\ last.args.book_id = book_id /\ last.idx # 0
    THEN <<last.ret, last.before.available_quantity>>
    ELSE <<>>

(***************************************************************************)
(* services/book_service.py                                                *)
(***************************************************************************)
\* BookService.add_book
add_book(isbn, title, author, publisher, publish_date, category_id, price, total_quantity) ==
    /\ find_by_isbn(books, isbn) # None \/ now + 2 <= MaxClock
    /\ LET existing_book == find_by_isbn(books, isbn)
           args == [isbn |-> isbn, title |-> title, author |-> author,
                    publisher |-> publisher, publish_date |-> publish_date,
                    category_id |-> category_id, price |-> price,
                    total_quantity |-> total_quantity]
       IN
       IF existing_book # None
       THEN /\ last' = Call("add_book", args, ValueError,
                            IndexByIsbn(books, isbn, 1), existing_book)
            /\ UNCHANGED <<books, next_id, now, track, assigned, kwargs_used>>
       ELSE LET book == Book(0, isbn, title, author, publisher, publish_date,
                             category_id, price, total_quantity, now)
                r == save(books, next_id, book)
            IN
            /\ books' = r.books
            /\ next_id' = r.next_id
            /\ track' = Append(track, NewTrack(total_quantity))
            /\ assigned' = Append(assigned, r.book.book_id)
            /\ now' = now + 2
            /\ last' = Call("add_book", args, r.book, 0, None)
            /\ UNCHANGED kwargs_used

\* One keyword argument of update_book: a <<name, value>> pair.  The
\* values a name is explored with: a total_quantity at the two ends of
\* the non-negative totals, an available_quantity below zero and one at
\* the largest total (above every smaller one).
KwargValues(key) ==
    CASE key = "book_id" -> {1}
      [] key = "isbn" -> Isbns
      [] key = "price" -> Prices
      [] key = "total_quantity" -> {0, 2}
      [] key = "available_quantity" -> {-2, 2}
      [] key = "update_time" -> Times
      [] OTHER -> {0}

\* The keyword names update_book is explored with; "shelf" is not an
\* attribute of Book, and "book_id" is the name of update_book's own first
\* parameter.
KwargKeys == <<"book_id", "isbn", "total_quantity",
               "available_quantity", "shelf">>

\* The place of a name in KwargKeys.
KeyIndex(key) == CHOOSE n \in 1 .. Len(KwargKeys) : KwargKeys[n] = key

KwargKeysOf(kwargs) == {kwargs[i][1] : i \in 1 .. Len(kwargs)}

\* The keyword-argument lists of at most n pairs with distinct names.
\* The names of one call are set one after the other and setting one does
\* not read another, so each set of names is explored in one order, that
\* of KwargKeys.
RECURSIVE KwargsUpTo(_)
KwargsUpTo(n) ==
    IF n = 0 THEN {<<>>}
    ELSE LET shorter == KwargsUpTo(n - 1) IN
         shorter \cup
         UNION {UNION {{Append(kw, <<KwargKeys[k], v>>)
                          : v \in KwargValues(KwargKeys[k])}
                        : k \in {k \in 1 .. Len(KwargKeys) :
                                    Len(kw) = 0
                                    \/ k > KeyIndex(kw[Len(kw)][1])}}
                 : kw \in shorter}

\* hasattr that does not admit available_quantity.
hasattr_hides_available(book, key) ==
    key \in BookAttrs \ {"available_quantity"}

\* hasattr(book, key)
hasattr(book, key) == key \in BookAttrs

\* The loop of update_book: setattr for each recognised name, in order.
RECURSIVE ApplyKwargs(_, _, _)
ApplyKwargs(book, kwargs, i) ==
    IF i > Len(kwargs) THEN book
    ELSE LET key == kwargs[i][1]
             value == kwargs[i][2]
         IN ApplyKwargs(IF hasattr(book, key)
                        THEN [book EXCEPT ![key] = value]
                        ELSE book,
                        kwargs, i + 1)

\* BookService.update_book
update_book(book_id, kwargs) ==
    LET i == IndexById(books, book_id, 1)
        args == [book_id |-> book_id, kwargs |-> kwargs]
    IN
    /\ kwargs_used + Len(kwargs) <= MaxKwargs
    /\ kwargs_used' = kwargs_used + Len(kwargs)
    /\ UNCHANGED <<next_id, now, assigned>>
    /\ IF "book_id" \in KwargKeysOf(kwargs)
       THEN /\ last' = Call("update_book", args, TypeError, 0, None)
            /\ UNCHANGED <<books, track>>
       ELSE IF i = 0
       THEN /\ last' = Call("update_book", args, None, 0, None)
            /\ UNCHANGED <<books, track>>
       ELSE LET book == ApplyKwargs(books[i], kwargs, 1) IN
            /\ books' = [books EXCEPT ![i] = book]
            /\ track' = [track EXCEPT ![i] = Updated(@)]
            /\ last' = Call("update_book", args, book, i, books[i])

\* BookService.delete_book
delete_book(book_id) ==
    LET i == IndexById(books, book_id, 1)
        r == delete(books, book_id)
    IN
    /\ books' = r.books
    /\ track' = IF i = 0 THEN track ELSE RemoveAt(track, i)
    /\ last' = Call("delete_book", [book_id |-> book_id], r.ok, i,
                    IF i = 0 THEN None ELSE books[i])
    /\ UNCHANGED <<next_id, now, assigned, kwargs_used>>

\* BookService.borrow_book
borrow_book(book_id) ==
    LET i == IndexById(books, book_id, 1)
        args == [book_id |-> book_id]
    IN
    IF i = 0
    THEN /\ last' = Call("borrow_book", args, FALSE, 0, None)
         /\ UNCHANGED <<books, next_id, now, track, assigned, kwargs_used>>
    ELSE IF books[i].available_quantity <= 0
    THEN /\ last' = Call("borrow_book", args, FALSE, i, books[i])
         /\ UNCHANGED <<books, next_id, now, track, assigned, kwargs_used>>
    ELSE LET r == update_quantity(books[i], -1, now) IN
         /\ r.ok => now < MaxClock
         /\ books' = [books EXCEPT ![i] = r.book]
         /\ now' = IF r.ok THEN now + 1 ELSE now
         /\ track' = [track EXCEPT ![i] = Borrowed(@, r.ok)]
         /\ last' = Call("borrow_book", args, r.ok, i, books[i])
         /\ UNCHANGED <<next_id, assigned, kwargs_used>>

\* BookService.return_book
return_book(book_id) ==
    LET i == IndexById(books, book_id, 1)
        args == [book_id |-> book_id]
    IN
    IF i = 0
    THEN /\ last' = [Call("return_book", args, FALSE, 0, None)
                       EXCEPT !.prior = PriorBorrow(book_id)]
         /\ UNCHANGED <<books, next_id, now, track, assigned, kwargs_used>>
    ELSE /\ UNCHANGED <<next_id, assigned, kwargs_used>>
         /\ IF books[i].available_quantity >= books[i].total_quantity
            THEN /\ last' = [Call("return_book", args, FALSE, i, books[i])
                               EXCEPT !.prior = PriorBorrow(book_id)]
                 /\ track' = [track EXCEPT ![i] = Returned(@, FALSE)]
                 /\ UNCHANGED <<books, now>>
            ELSE LET r == update_quantity(books[i], 1, now) IN
                 /\ r.ok => now < MaxClock
                 /\ track' = [track EXCEPT ![i] = Returned(@, r.ok)]
                 /\ books' = [books EXCEPT ![i] = r.book]
                 /\ now' = IF r.ok THEN now + 1 ELSE now
                 /\ last' = [Call("return_book", args, r.ok, i, books[i])
                               EXCEPT !.prior = PriorBorrow(book_id)]

\* BookService.get_book_by_id: a read of the store as it is.
get_book_by_id(book_id) == find_by_id(books, book_id)

\* BookService.get_book_by_isbn: a read of the store as it is.
get_book_by_isbn(isbn) == find_by_isbn(books, isbn)

\* BookService.search_books
search_books(title, author, category_id) ==
    /\ last' = Call("search_books",
                    [title |-> title, author |-> author,
                     category_id |-> category_id],
                    find_by_params(books, title, author, category_id),
                    0, None)
    /\ UNCHANGED <<books, next_id, now, track, assigned, kwargs_used>>

\* BookService.get_all_books; the caller keeps the list returned.
get_all_books ==
    /\ all_books' = find_all(books)
    /\ last' = Call("get_all_books", None, find_all(books), 0, None)
    /\ UNCHANGED <<books, next_id, now, track, assigned, kwargs_used>>

(***************************************************************************)
(* The service as a state machine.                                         *)
(***************************************************************************)
\* BookService.__init__ / BookRepository.__init__
Init ==
    /\ books = <<>>
    /\ next_id = 1
    /\ now = 0
    /\ last = Call("init", None, None, 0, None)
    /\ track = <<>>
    /\ assigned = <<>>
    /\ kwargs_used = 0
    /\ all_books = None

AddBook ==
    \E isbn \in Isbns, title \in Titles, author \in Authors,
       publisher \in Publishers, publish_date \in PublishDates,
       category_id \in CategoryIds, price \in Prices,
       total_quantity \in Quantities :
        /\ add_book(isbn, title, author, publisher, publish_date,
                    category_id, price, total_quantity)
        /\ UNCHANGED all_books

UpdateBook ==
    \E book_id \in BookIds, kwargs \in KwargsUpTo(MaxKwargs - kwargs_used) :
        update_book(book_id, kwargs) /\ UNCHANGED all_books

DeleteBook ==
    \E book_id \in BookIds : delete_book(book_id) /\ UNCHANGED all_books

BorrowBook ==
    \E book_id \in BookIds : borrow_book(book_id) /\ UNCHANGED all_books

ReturnBook ==
    \E book_id \in BookIds : return_book(book_id) /\ UNCHANGED all_books

Next ==
    \/ AddBook
    \/ UpdateBook
    \/ DeleteBook
    \/ BorrowBook
    \/ ReturnBook

Spec == Init /\ [][Next]_vars

(***************************************************************************)
(* The Book entity on its own: one Book object in any state its fields can *)
(* take, and a caller applying update_quantity with any change.            *)
(***************************************************************************)
Changes == -4 .. 4

InitEntity ==
    /\ \E isbn \in Isbns, total_quantity \in Quantities,
          available_quantity \in AvailValues, t \in 0 .. (MaxClock - 2) :
          /\ books = <<[Book(0, isbn, "Python Guide", "Eric Matthes", "Post",
                             20200101, 1, 89, total_quantity, t)
                        EXCEPT !.available_quantity = available_quantity]>>
          /\ now = t + 2
    /\ next_id = 1
    /\ last = Call("init", None, None, 0, None)
    /\ track = <<>>
    /\ assigned = <<>>
    /\ kwargs_used = 0
    /\ all_books = None

\* A direct call of Book.update_quantity(change) on the object.
ChangeQuantity ==
    \E change \in Changes :
        LET r == update_quantity(books[1], change, now) IN
        /\ r.ok => now < MaxClock
        /\ books' = <<r.book>>
        /\ now' = IF r.ok THEN now + 1 ELSE now
        /\ last' = Call("update_quantity", [change |-> change], r.ok, 1,
                        books[1])
        /\ UNCHANGED <<next_id, track, assigned, kwargs_used, all_books>>

NextEntity == ChangeQuantity

SpecEntity == InitEntity /\ [][NextEntity]_vars

(***************************************************************************)
(* The catalogue searched: books of several titles, authors and            *)
(* categories are added and deleted, and search_books is called with every *)
(* combination of filters.                                                 *)
(***************************************************************************)
SearchTitles == {<<"P", "y">>, <<"G", "o">>, <<"p", "y", "G", "o">>}
SearchAuthors == {<<"A", "b">>, <<"B", "o">>}
SearchCategoryIds == {1, 2}

\* The filters search_books is called with: omitted, empty / 0, and
\* strings in either case that occur in some titles, in all or in none.
TitleFilters ==
    {None} \cup {Given(str) : str \in {<<>>, <<"P", "Y">>, <<"y", "g">>,
                                         <<"o", "p">>}}
AuthorFilters == {None} \cup {Given(str) : str \in {<<>>, <<"b", "O">>}}
CategoryFilters == {None} \cup {Given(c) : c \in {0, 2}}

AddSearchable ==
    \E isbn \in Isbns, title \in SearchTitles, author \in SearchAuthors,
       category_id \in SearchCategoryIds :
        /\ add_book(isbn, title, author, "Post", 20200101, category_id, 89, 1)
        /\ UNCHANGED all_books

SearchBooks ==
    \E title \in TitleFilters, author \in AuthorFilters,
       category_id \in CategoryFilters :
        search_books(title, author, category_id) /\ UNCHANGED all_books

NextSearch ==
    \/ AddSearchable
    \/ DeleteBook
    \/ SearchBooks

SpecSearch == Init /\ [][NextSearch]_vars

(***************************************************************************)
(* A caller of get_all_books that changes the list it was given (append,   *)
(* del, reverse) and the books in it (setattr), between calls of add_book  *)
(* and get_all_books.  No book is deleted here, so a position in _books    *)
(* keeps naming the same Book object.                                      *)
(***************************************************************************)
\* The Book objects a list holds.
Items(list) == [n \in 1 .. Len(list.refs) |-> books[list.refs[n]]]

\* The caller changes the list it holds so that it holds refs: a change
\* of the repository's own list object is a change of _books.
MutateList(op, args, refs) ==
    /\ last' = Call(op, args, None, 0, None)
    /\ UNCHANGED <<next_id, now, assigned, kwargs_used>>
    /\ IF all_books.list = "_books"
       THEN /\ books' = [n \in 1 .. Len(refs) |-> books[refs[n]]]
            /\ track' = [n \in 1 .. Len(refs) |-> track[refs[n]]]
            /\ all_books' = [all_books EXCEPT
                                !.refs = [n \in 1 .. Len(refs) |-> n]]
       ELSE /\ all_books' = [all_books EXCEPT !.refs = refs]
            /\ UNCHANGED <<books, track>>

\* all_books.append(book), for a stored book.
ListAppend ==
    /\ all_books # None
    /\ Len(all_books.refs) < MaxListLen
    /\ \E r \in 1 .. Len(books) :
          MutateList("list.append", [ref |-> r], Append(all_books.refs, r))

\* del all_books[k]
ListDelete ==
    /\ all_books # None
    /\ \E k \in 1 .. Len(all_books.refs) :
          MutateList("list.del", [index |-> k], RemoveAt(all_books.refs, k))

\* all_books.reverse()
ListReverse ==
    /\ all_books # None
    /\ LET n == Len(all_books.refs) IN
       MutateList("list.reverse", None,
                  [k \in 1 .. n |-> all_books.refs[n + 1 - k]])

\* all_books[k].price = price: the Book object is the stored one.
BookSetPrice ==
    /\ all_books # None
    /\ \E k \in 1 .. Len(all_books.refs), price \in {89, 99} :
          /\ books' = [books EXCEPT ![all_books.refs[k]].price = price]
          /\ last' = Call("book.price", [index |-> k, price |-> price],
                          None, all_books.refs[k], books[all_books.refs[k]])
          /\ UNCHANGED <<next_id, now, track, assigned, kwargs_used,
                         all_books>>

GetAllBooks == get_all_books

NextCaller ==
    \/ AddBook
    \/ GetAllBooks
    \/ ListAppend
    \/ ListDelete
    \/ ListReverse
    \/ BookSetPrice

SpecCaller == Init /\ [][NextCaller]_vars

(***************************************************************************)
(* Properties.                                                             *)
(***************************************************************************)
\* A step that is the call `op`: every call records itself in `last`.
StepOf(op) == last'.op = op

InBounds(book) ==
    0 <= book.available_quantity
    /\ book.available_quantity <= book.total_quantity

\* C1: in every reachable state every stored book satisfies
\* 0 <= available_quantity <= total_quantity.
C1_QuantityWithinBounds == \A i \in 1 .. Len(books) : InBounds(books[i])

\* C2: in every reachable state no two stored books have the same isbn.
C2_IsbnUnique ==
    \A i, j \in 1 .. Len(books) : i # j => books[i].isbn # books[j].isbn

\* C3: in every reachable state no two stored books have the same book_id
\* and every stored book_id was assigned by the store: 1 <= book_id <
\* next_id.
C3_BookIdUniqueAndAssigned ==
    /\ \A i, j \in 1 .. Len(books) :
          i # j => books[i].book_id # books[j].book_id
    /\ \A i \in 1 .. Len(books) :
          1 <= books[i].book_id /\ books[i].book_id < next_id

\* C3 witness: two books are stored under the ids 1 and 2 after an
\* update_book call for the second that passed the id of the first under
\* the keyword book_id.
C3_Witness ==
    /\ last.op = "update_book"
    /\ last.ret = TypeError
    /\ Len(books) = 2
    /\ last.args.book_id = books[2].book_id
    /\ last.args.kwargs[1][2] = books[1].book_id
    /\ books[1].book_id = 1
    /\ books[2].book_id = 2

\* C4: the n-th successful add_book returns the book with book_id n, so
\* ids strictly increase and are never handed out twice, also across
\* deletions; the counter is one more than the number of successful
\* add_book calls, so a failed add_book consumes no id; the book just
\* returned by add_book carries the newest id.
C4_IdAssignment ==
    /\ \A n \in 1 .. Len(assigned) : assigned[n] = n
    /\ next_id = Len(assigned) + 1
    /\ (last.op = "add_book" /\ last.ret # ValueError)
          => last.ret.book_id = Len(assigned)

\* C4 witness: a second book was added after the first one was deleted,
\* and got id 2.
C4_Witness ==
    /\ last.op = "add_book"
    /\ last.ret # ValueError
    /\ assigned = <<1, 2>>
    /\ Len(books) = 1
    /\ books[1].book_id = 2

\* C5: add_book with the isbn of a stored book raises ValueError whatever
\* the other arguments are, and leaves the books, their order and fields
\* and the next-id counter as they were.
C5_DuplicateIsbnRejected ==
    [][(StepOf("add_book") /\ IndexByIsbn(books, last'.args.isbn, 1) # 0)
          => (last'.ret = ValueError /\ books' = books
              /\ next_id' = next_id)]_vars

\* C5 witness: an add_book was rejected for the isbn of the second stored
\* book, with a total_quantity other than that book's.
C5_Witness ==
    /\ last.op = "add_book"
    /\ last.ret = ValueError
    /\ last.idx = 2
    /\ last.args.total_quantity # last.before.total_quantity

\* C6: update_quantity(change): when 0 <= available_quantity + change <=
\* total_quantity it stores the sum, sets update_time to the clock reading
\* and returns True; otherwise it returns False and changes no field.  It
\* never changes total_quantity, nor any field besides available_quantity
\* and update_time.
C6_ChangeQuantity ==
    [][StepOf("update_quantity") =>
          LET b == books[1]
              sum == b.available_quantity + last'.args.change
          IN
          IF 0 <= sum /\ sum <= b.total_quantity
          THEN /\ last'.ret = TRUE
               /\ books'[1] = [b EXCEPT !.available_quantity = sum,
                                        !.update_time = now]
          ELSE /\ last'.ret = FALSE
               /\ books'[1] = b]_vars

\* C6 witness: a change of more than one copy was applied and the
\* update_time moved.
C6_Witness ==
    /\ last.op = "update_quantity"
    /\ last.ret = TRUE
    /\ last.args.change < -1
    /\ books[1].update_time # last.before.update_time
    /\ books[1].available_quantity =
          last.before.available_quantity + last.args.change

\* C7: borrow_book on a stored book returns True exactly when
\* available_quantity > 0 before the call; then available_quantity drops
\* by exactly 1, and when it returns False available_quantity is unchanged.
C7_BorrowExactlyWhenAvailable ==
    [][(StepOf("borrow_book") /\ last'.idx # 0) =>
          LET i == last'.idx IN
          /\ last'.ret = (books[i].available_quantity > 0)
          /\ books'[i].available_quantity =
                IF last'.ret THEN books[i].available_quantity - 1
                ELSE books[i].available_quantity]_vars

\* C8: return_book on a stored book returns True exactly when
\* available_quantity < total_quantity before the call; then
\* available_quantity rises by exactly 1, and when it returns False
\* available_quantity is unchanged.
C8_ReturnExactlyWhenOutstanding ==
    [][(StepOf("return_book") /\ last'.idx # 0) =>
          LET i == last'.idx IN
          /\ last'.ret =
                (books[i].available_quantity < books[i].total_quantity)
          /\ books'[i].available_quantity =
                IF last'.ret THEN books[i].available_quantity + 1
                ELSE books[i].available_quantity]_vars

\* A return_book(id) step right after a borrow_book(id) that found a book.
ReturnAfterBorrow ==
    /\ last.op = "borrow_book"
    /\ last.idx # 0
    /\ StepOf("return_book")
    /\ last'.args.book_id = last.args.book_id

\* C9 as stated: borrow_book(id) immediately followed by return_book(id)
\* leaves available_quantity at its value before the borrow_book call.
C9_BorrowReturnRestores ==
    [][ReturnAfterBorrow =>
          books'[last.idx].available_quantity =
             last.before.available_quantity]_vars

\* C9 as amended: when borrow_book(id) returned True on a book whose
\* available_quantity did not exceed its total_quantity, the return_book(id)
\* immediately after it returns True and leaves available_quantity at its
\* value before the borrow_book call.
C9_SuccessfulBorrowReturnRestores ==
    [][(ReturnAfterBorrow /\ last.ret = TRUE
        /\ last.before.available_quantity <= last.before.total_quantity)
          => (last'.ret = TRUE
              /\ books'[last.idx].available_quantity =
                    last.before.available_quantity)]_vars

\* C9 witness: a return_book right after a successful borrow_book of the
\* same book, which had been within its bounds.
C9_Witness ==
    /\ last.op = "return_book"
    /\ last.idx # 0
    /\ last.prior # <<>>
    /\ last.prior[1] = TRUE
    /\ last.prior[2] <= last.before.total_quantity
    /\ last.ret = TRUE
    /\ books[last.idx].available_quantity = last.prior[2]

\* C10: for a book added with total_quantity n and reached by borrow_book
\* calls only since, a borrow_book returns True exactly while fewer than n
\* of them have returned True (so exactly the first n calls succeed);
\* available_quantity is n less the successes; once it is 0 a borrow_book
\* returns False and leaves it 0.
C10_BorrowUntilExhausted ==
    [][(StepOf("borrow_book") /\ last'.idx # 0
        /\ track[last'.idx].only_borrowed) =>
          LET i == last'.idx
              n == track[i].added_total
              k == track[i].borrowed_ok
          IN
          /\ last'.ret = (k < n)
          /\ books[i].available_quantity = (IF n >= 0 THEN n - k ELSE n)
          /\ books[i].available_quantity = 0 =>
                (last'.ret = FALSE /\ books'[i].available_quantity = 0)]_vars

\* C10 witness: a book added with two copies, borrowed twice with success,
\* and the third borrow_book returned False.
C10_Witness ==
    /\ last.op = "borrow_book"
    /\ last.idx # 0
    /\ last.ret = FALSE
    /\ track[last.idx].only_borrowed
    /\ track[last.idx].added_total = 2
    /\ track[last.idx].borrowed_ok = 2
    /\ books[last.idx].available_quantity = 0

\* No stored book has the given book_id / isbn.
NoBookWithId(book_id) ==
    \A i \in 1 .. Len(books) : books[i].book_id # book_id

NoBookWithIsbn(isbn) ==
    \A i \in 1 .. Len(books) : books[i].isbn # isbn

C12_DeletedIsGone ==
    [][(StepOf("delete_book") /\ last'.ret = TRUE) =>
          (/\ find_by_id(books', last'.args.book_id) = None
           /\ find_by_isbn(books', last'.before.isbn) = None
           /\ \E k \in 1 .. Len(books) : books' = RemoveAt(books, k))]_vars

\* C13: after a successful add_book(isbn, title, author, ...),
\* get_book_by_isbn(isbn) returns the very book add_book returned, with
\* the isbn, title and author passed and a book_id > 0, and
\* get_book_by_id of that book_id returns the same book.
C13_AddThenLookup ==
    [][(StepOf("add_book") /\ last'.ret # ValueError) =>
          LET b == last'.ret
              a == last'.args
          IN
          /\ b.isbn = a.isbn /\ b.title = a.title /\ b.author = a.author
          /\ b.book_id > 0
          /\ books'[Len(books')] = b
          /\ find_by_isbn(books', a.isbn) = b
          /\ IndexByIsbn(books', a.isbn, 1) = Len(books')
          /\ find_by_id(books', b.book_id) = b
          /\ IndexById(books', b.book_id, 1) = Len(books')]_vars

\* get_status tells "available" exactly for available_quantity > 0, on
\* every stored book.
StatusFollowsQuantity ==
    \A i \in 1 .. Len(books) :
        (get_status(books[i]) = "available")
           <=> (books[i].available_quantity > 0)

\* C14 as stated: for every total_quantity passed, the book add_book
\* constructs has available_quantity = total_quantity and get_status()
\* "available"; in general get_status() is "available" exactly when
\* available_quantity > 0 and "on loan" otherwise.
C14_NewBookIsAvailable ==
    /\ []StatusFollowsQuantity
    /\ [][(StepOf("add_book") /\ last'.ret # ValueError) =>
             (/\ last'.ret.total_quantity = last'.args.total_quantity
              /\ last'.ret.available_quantity = last'.args.total_quantity
              /\ get_status(last'.ret) = "available")]_vars

\* C14 as amended: the book add_book constructs has available_quantity =
\* total_quantity, and its get_status() is "available" exactly when the
\* total_quantity passed is > 0, "on loan" when it is 0 or negative; in
\* general get_status() is "available" exactly when available_quantity > 0.
C14_NewBookStatusFollowsTotal ==
    /\ []StatusFollowsQuantity
    /\ [][(StepOf("add_book") /\ last'.ret # ValueError) =>
             (/\ last'.ret.total_quantity = last'.args.total_quantity
              /\ last'.ret.available_quantity = last'.args.total_quantity
              /\ get_status(last'.ret) =
                    (IF last'.args.total_quantity > 0 THEN "available"
                     ELSE "on loan"))]_vars

\* C14 witness: a book was added with total_quantity 0 and is "on loan".
C14_Witness ==
    /\ last.op = "add_book"
    /\ last.ret # ValueError
    /\ last.args.total_quantity = 0
    /\ last.ret.available_quantity = 0
    /\ get_status(last.ret) = "on loan"

\* C13 witness: add_book stored a second book, and both lookups return it.
C13_Witness ==
    /\ last.op = "add_book"
    /\ last.ret # ValueError
    /\ Len(books) = 2
    /\ books[2] = last.ret
    /\ get_book_by_isbn(last.args.isbn) = last.ret
    /\ get_book_by_id(last.ret.book_id) = last.ret

\* The value the keyword arguments kwargs supply under the name key.
Supplied(kwargs, key) ==
    kwargs[CHOOSE n \in 1 .. Len(kwargs) : kwargs[n][1] = key][2]

\* What C16 says of an update_book(book_id, kwargs) step that found the
\* book at position i: the call returns that book, every attribute named
\* in kwargs has the value supplied and every other attribute its old
\* value, and the other books, the order and the counter are as before.
SetsExactlySupplied(i) ==
    LET kwargs == last'.args.kwargs IN
    /\ last'.ret = books'[i]
    /\ \A key \in BookAttrs :
          books'[i][key] = IF key \in KwargKeysOf(kwargs)
                           THEN Supplied(kwargs, key)
                           ELSE books[i][key]
    /\ DOMAIN books'[i] = BookAttrs
    /\ Len(books') = Len(books)
    /\ \A j \in 1 .. Len(books) : j # i => books'[j] = books[j]
    /\ next_id' = next_id

C17_InventoryStateMachine ==
    [][IF StepOf("delete_book") /\ last'.ret = TRUE
       THEN \A j \in 1 .. Len(books') :
               books'[j].available_quantity =
                  books[IF j < last'.idx THEN j ELSE j + 1].available_quantity
       ELSE \A j \in 1 .. Len(books) :
               LET d == books'[j].available_quantity
                           - books[j].available_quantity
               IN
               \/ d = 0
               \/ /\ d = -1
                  /\ StepOf("borrow_book")
                  /\ last'.ret = TRUE
                  /\ last'.idx = j
               \/ /\ d = 1
                  /\ StepOf("return_book")
                  /\ last'.ret = TRUE
                  /\ last'.idx = j]_vars

C20_LoanConservation ==
    \A i \in 1 .. Len(books) :
        (track[i].added_total >= 0 /\ ~track[i].updated) =>
           /\ books[i].total_quantity - books[i].available_quantity =
                 track[i].borrows - track[i].returns
           /\ track[i].returns <= track[i].borrows

\* C20 witness: a book of two copies with all of them back after one
\* borrow and one return that returned True.
C20_Witness ==
    \E i \in 1 .. Len(books) :
        /\ ~track[i].updated
        /\ track[i].added_total = 2
        /\ track[i].borrows = 1
        /\ track[i].returns = 1
        /\ books[i].total_quantity - books[i].available_quantity = 0

\* Two characters that are the same up to case.
SameLetter(c, d) ==
    \/ c = d
    \/ \E u \in 1 .. Len(UpperLetters) :
          {c, d} = {UpperLetters[u], LowerLetters[u]}

\* The string q occurs in str, case ignored.
OccursIgnoringCase(q, str) ==
    \E k \in 0 .. (Len(str) - Len(q)) :
        \A n \in 1 .. Len(q) : SameLetter(q[n], str[k + n])

\* The book satisfies every filter that the arguments of a search_books
\* call supply: an omitted filter, an empty string and category_id 0
\* supply none.
Satisfies(book, args) ==
    /\ (args.title # None /\ args.title.value # <<>>)
          => OccursIgnoringCase(args.title.value, book.title)
    /\ (args.author # None /\ args.author.value # <<>>)
          => OccursIgnoringCase(args.author.value, book.author)
    /\ (args.category_id # None /\ args.category_id.value # 0)
          => book.category_id = args.category_id.value

\* C15: search_books returns exactly the stored books that satisfy every
\* supplied filter (title and author: substring, case ignored;
\* category_id: equality), in the order of the store; an omitted filter,
\* an empty title / author and category_id 0 impose nothing; the call
\* does not change the store.
C15_SearchReturnsMatches ==
    [][StepOf("search_books") =>
          (/\ last'.ret =
                 SelectSeq(books, LAMBDA book : Satisfies(book, last'.args))
           /\ books' = books
           /\ next_id' = next_id)]_vars

\* C15 witness: of two stored books a search by a title in the other
\* case and an author returned the second one only.
C15_Witness ==
    /\ last.op = "search_books"
    /\ Len(books) = 2
    /\ last.args.title = Given(<<"y", "g">>)
    /\ last.args.author = Given(<<"b", "O">>)
    /\ last.args.category_id = None
    /\ books[1].title = <<"P", "y">>
    /\ books[2].title = <<"p", "y", "G", "o">>
    /\ last.ret = <<books[2]>>

\* C15 witness of the order: a search with an empty title and category 0
\* returned both stored books, in the order of the store.
C15_WitnessOrder ==
    /\ last.op = "search_books"
    /\ Len(books) = 2
    /\ last.args.title = Given(<<>>)
    /\ last.args.category_id = Given(0)
    /\ last.ret = books

\* C18: get_all_books returns all stored books in the order of the store,
\* in a list of its own: when the caller appends to that list, deletes
\* from it or reverses it, the store is as before (a later get_all_books
\* returns the same books in the same order, get_book_by_id the same
\* book); the books in the list are the stored objects, so a field set
\* on one of them shows in the store.
C18_AllBooksIsACopy ==
    [][/\ StepOf("get_all_books") => Items(last'.ret) = books
       /\ last'.op \in {"list.append", "list.del", "list.reverse"} =>
             /\ [n \in 1 .. Len(books') |-> books'[find_all(books').refs[n]]]
                   = books
             /\ \A book_id \in BookIds :
                   find_by_id(books', book_id) = find_by_id(books, book_id)
       /\ StepOf("book.price") =>
             LET book_id == last'.before.book_id IN
             /\ find_by_id(books', book_id).price = last'.args.price
             /\ find_by_id(books', book_id) =
                   [find_by_id(books, book_id) EXCEPT
                      !.price = last'.args.price]]_vars

\* C18 witness: the caller has reversed its list of the two stored books,
\* and the store still has them in the order they were added.
C18_Witness ==
    /\ last.op = "list.reverse"
    /\ Len(books) = 2
    /\ all_books.refs = <<2, 1>>
    /\ books[1].book_id = 1
    /\ books[2].book_id = 2
    /\ Items(find_all(books)) = books

\* C18 witness of the shared books: a price set on a book of the list is
\* the price of the stored book.
C18_WitnessShared ==
    /\ last.op = "book.price"
    /\ last.args.price = 99
    /\ last.before.price = 89
    /\ get_book_by_id(last.before.book_id).price = 99

====
